---- MODULE Spec2Model ----
(***************************************************************************)
(* Model of the Amazon reviews scraper:                                    *)
(*   src/src/extractors/utils_text.py      (text normalizer)               *)
(*   src/src/extractors/reviews_parser.py  (AmazonReviewsScraper)          *)
(*                                                                         *)
(* A Python str is a sequence of one-character strings, so that the        *)
(* regular expressions and the string methods are computed character by    *)
(* character.  An Optional value is NoneV (Python's None) or Some(v).      *)
(* A float is held in tenths (4.0 is 40): every number the rating pattern  *)
(* can capture has at most one decimal.                                    *)
(***************************************************************************)
EXTENDS Integers, Sequences, FiniteSets, TLC

VARIABLES
    pc,                      \* position in scrape_product_reviews / the pure call
    product_url,             \* argument product_url
    max_reviews,             \* argument max_reviews
    retry_count,             \* self.retry_count
    sleep_between_requests,  \* self.sleep_between_requests
    asin,                    \* local asin
    collected,               \* local collected
    page,                    \* local page
    attempt,                 \* loop variable of _fetch_html_with_retries
    html,                    \* local html (value returned by the fetcher)
    fetch_log,               \* events (GET, sleep) of the running fetcher call
    requested,               \* page numbers handed to the fetcher, in order
    page_yields,             \* the list `reviews` of every page parsed, in order
    slept,                   \* number of inter-page time.sleep calls (line 78)
    result,                  \* value returned by scrape_product_reviews
    call,                    \* the pure function under call and its argument
    ret                      \* Some(value returned by the pure call), or NoneV

vars == <<pc, product_url, max_reviews, retry_count, sleep_between_requests,
          asin, collected, page, attempt, html, fetch_log, requested,
          page_yields, slept, result, call, ret>>

----------------------------------------------------------------------------
(* Values *)

NoneV == <<>>
Some(v) == <<v>>

\* Python's sequence slice s[:n] (n may be negative or exceed len(s)).
SliceTo(s, n) ==
    LET stop == IF n < 0 THEN (IF Len(s) + n < 0 THEN 0 ELSE Len(s) + n)
                ELSE (IF n > Len(s) THEN Len(s) ELSE n)
    IN  SubSeq(s, 1, stop)

----------------------------------------------------------------------------
(* Characters and strings *)

Digits == {"0", "1", "2", "3", "4", "5", "6", "7", "8", "9"}
UpperLetters == {"A", "B", "E", "F", "H", "I", "L", "N", "O", "P", "S", "U", "X"}
LowerLetters == {"a", "b", "c", "d", "e", "f", "g", "h", "i", "l", "n", "o",
                 "p", "r", "s", "t", "u", "v", "w", "x"}
Whitespace == {" ", "\n", "\t"}

\* str.lower() on one character
LowerChar(c) ==
    CASE c = "A" -> "a" [] c = "B" -> "b" [] c = "E" -> "e" [] c = "F" -> "f"
      [] c = "H" -> "h" [] c = "I" -> "i" [] c = "L" -> "l" [] c = "N" -> "n"
      [] c = "O" -> "o" [] c = "P" -> "p" [] c = "S" -> "s" [] c = "U" -> "u"
      [] c = "X" -> "x" [] OTHER -> c

\* int() of one decimal digit
DigitValue(c) ==
    CASE c = "0" -> 0 [] c = "1" -> 1 [] c = "2" -> 2 [] c = "3" -> 3
      [] c = "4" -> 4 [] c = "5" -> 5 [] c = "6" -> 6 [] c = "7" -> 7
      [] c = "8" -> 8 [] c = "9" -> 9

\* str.lower()
Lower(s) == [i \in 1..Len(s) |-> LowerChar(s[i])]

\* the literal `lit` (given in lower case) occurs in s at index i, letter case ignored
LitAt(lit, s, i) ==
    /\ i >= 1
    /\ i + Len(lit) - 1 <= Len(s)
    /\ \A k \in 1..Len(lit) : LowerChar(s[i + k - 1]) = lit[k]

\* the literal `lit` occurs in s at index i, letter case kept
ExactAt(lit, s, i) ==
    /\ i >= 1
    /\ i + Len(lit) - 1 <= Len(s)
    /\ \A k \in 1..Len(lit) : s[i + k - 1] = lit[k]

\* `sub in s`
Contains(s, sub) == \E i \in 1..(Len(s) + 1) : ExactAt(sub, s, i)

\* first index >= i of s holding a character outside `set` (Len(s) + 1 if none):
\* where a greedy `set`+ or `set`* started at i stops
RECURSIVE SkipWhile(_, _, _)
SkipWhile(s, i, set) ==
    IF i <= Len(s) /\ s[i] \in set THEN SkipWhile(s, i + 1, set) ELSE i

\* str.strip() / get_text(strip=True) of a single text node
RECURSIVE RStrip(_)
RStrip(s) ==
    IF s # <<>> /\ s[Len(s)] \in Whitespace THEN RStrip(SubSeq(s, 1, Len(s) - 1)) ELSE s

Strip(s) == RStrip(SubSeq(s, SkipWhile(s, 1, Whitespace), Len(s)))

\* str.split(): the words of s, split on runs of white space
RECURSIVE SplitWords(_, _)
SplitWords(s, i) ==
    LET b == SkipWhile(s, i, Whitespace)
        e == SkipWhile(s, b, {c \in {s[k] : k \in 1..Len(s)} : c \notin Whitespace})
    IN  IF b > Len(s) THEN <<>>
        ELSE <<SubSeq(s, b, e - 1)>> \o SplitWords(s, e)

\* sep.join(parts)
RECURSIVE Join(_, _)
Join(sep, parts) ==
    IF parts = <<>> THEN <<>>
    ELSE IF Len(parts) = 1 THEN parts[1]
    ELSE parts[1] \o sep \o Join(sep, Tail(parts))

\* str.split(sep) for a one-character separator: the pieces between separators
RECURSIVE SplitOn(_, _)
SplitOn(s, sep) ==
    LET e == SkipWhile(s, 1, {c \in {s[k] : k \in 1..Len(s)} : c # sep})
    IN  IF e > Len(s) THEN <<s>>
        ELSE <<SubSeq(s, 1, e - 1)>> \o SplitOn(SubSeq(s, e + 1, Len(s)), sep)

\* int() of a run of decimal digits
RECURSIVE IntOf(_)
IntOf(ds) ==
    IF ds = <<>> THEN 0 ELSE 10 * IntOf(SubSeq(ds, 1, Len(ds) - 1)) + DigitValue(ds[Len(ds)])

----------------------------------------------------------------------------
(* utils_text.py *)

\* clean_text(text); an absent text is NoneV
clean_text(text) ==
    IF text = NoneV THEN <<>>
    ELSE Strip(Join(<<" ">>, SplitWords(text[1], 1)))

LitOutOf == <<"o", "u", "t", " ", "o", "f">>

\* the tail `\s+out of\s+5` of _RATING_RE matches s from index j
RatingTailAt(s, j) ==
    LET o == SkipWhile(s, j, Whitespace)
        w == o + Len(LitOutOf)
        f == SkipWhile(s, w, Whitespace)
    IN  /\ o > j
        /\ LitAt(LitOutOf, s, o)
        /\ f > w
        /\ f <= Len(s)
        /\ s[f] = "5"

\* _RATING_RE.match at index i: Some(group 1) or NoneV.  The optional `(?:\.\d)?`
\* is greedy: it is taken when the rest matches after it, dropped otherwise.
RatingMatchAt(s, i) ==
    IF ~(i <= Len(s) /\ s[i] \in {"0", "1", "2", "3", "4", "5"}) THEN NoneV
    ELSE IF /\ i + 2 <= Len(s)
            /\ s[i + 1] = "."
            /\ s[i + 2] \in Digits
            /\ RatingTailAt(s, i + 3)
         THEN Some(SubSeq(s, i, i + 2))
    ELSE IF RatingTailAt(s, i + 1) THEN Some(SubSeq(s, i, i))
    ELSE NoneV

\* _RATING_RE.search(text): the leftmost match
RECURSIVE RatingSearch(_, _)
RatingSearch(s, i) ==
    IF i > Len(s) THEN NoneV
    ELSE IF RatingMatchAt(s, i) # NoneV THEN RatingMatchAt(s, i)
    ELSE RatingSearch(s, i + 1)

\* float(g) for g = d or d.d, in tenths
FloatOf(g) ==
    IF Len(g) = 1 THEN 10 * DigitValue(g[1])
    ELSE 10 * DigitValue(g[1]) + DigitValue(g[3])

\* parse_rating_score(text): Some(tenths) or NoneV
parse_rating_score(text) ==
    IF text = <<>> THEN NoneV
    ELSE LET m == RatingSearch(text, 1)
         IN  IF m # NoneV THEN Some(FloatOf(m[1])) ELSE NoneV

LitPeopl == <<"p", "e", "o", "p", "l">>
LitFoundHelpful == <<" ", "f", "o", "u", "n", "d", " ", "t", "h", "i", "s", " ",
                     "h", "e", "l", "p", "f", "u", "l">>
LitOnePerson == <<"o", "n", "e", " ", "p", "e", "r", "s", "o", "n">> \o LitFoundHelpful

\* _HELPFUL_RE.match at index i: Some(group 1) or NoneV.
\* `(\d+)\s+people? found this helpful`: the `?` binds to the final `e` alone.
HelpfulMatchAt(s, i) ==
    LET d == SkipWhile(s, i, Digits)
        p == SkipWhile(s, d, Whitespace)
        q == p + Len(LitPeopl)
    IN  IF /\ d > i
           /\ p > d
           /\ LitAt(LitPeopl, s, p)
           /\ \/ (LitAt(<<"e">>, s, q) /\ LitAt(LitFoundHelpful, s, q + 1))
              \/ LitAt(LitFoundHelpful, s, q)
        THEN Some(SubSeq(s, i, d - 1))
        ELSE NoneV

\* _HELPFUL_RE.search(text): the leftmost match
RECURSIVE HelpfulSearch(_, _)
HelpfulSearch(s, i) ==
    IF i > Len(s) THEN NoneV
    ELSE IF HelpfulMatchAt(s, i) # NoneV THEN HelpfulMatchAt(s, i)
    ELSE HelpfulSearch(s, i + 1)

\* parse_helpful_votes(text)
parse_helpful_votes(text) ==
    IF text = <<>> THEN 0
    ELSE LET m == HelpfulSearch(text, 1)
         IN  IF m # NoneV THEN IntOf(m[1])
             ELSE IF Contains(Lower(text), LitOnePerson) THEN 1
             ELSE 0

----------------------------------------------------------------------------
(* reviews_parser.py: _extract_asin *)

AsinLen == 10
AsinChars == Digits \cup UpperLetters          \* the class [A-Z0-9]
AlnumChars == Digits \cup UpperLetters \cup LowerLetters

\* str.isalnum()
IsAlnum(s) == s # <<>> /\ \A k \in 1..Len(s) : s[k] \in AlnumChars

\* urlparse(url).path and .query, for a url given from the end of its origin on
\* (scheme and host carry no `?`): the query starts after the first `?`
urlparse(url) ==
    LET q == SkipWhile(url, 1, {c \in {url[k] : k \in 1..Len(url)} : c # "?"})
    IN  [path |-> SubSeq(url, 1, q - 1), query |-> SubSeq(url, q + 1, Len(url))]

\* a regular expression `<first><lit>([A-Z0-9]{10})` matches s at index i:
\* one character of the class `first`, the literal, ten identifier characters
AsinMatchAt(first, lit, s, i) ==
    /\ i <= Len(s)
    /\ s[i] \in first
    /\ ExactAt(lit, s, i + 1)
    /\ i + Len(lit) + AsinLen <= Len(s)
    /\ \A k \in 1..AsinLen : s[i + Len(lit) + k] \in AsinChars

\* re.search of that expression in s: Some(group 1) of the leftmost match, or NoneV
RECURSIVE AsinSearch(_, _, _, _)
AsinSearch(first, lit, s, i) ==
    IF i > Len(s) THEN NoneV
    ELSE IF AsinMatchAt(first, lit, s, i)
         THEN Some(SubSeq(s, i + Len(lit) + 1, i + Len(lit) + AsinLen))
    ELSE AsinSearch(first, lit, s, i + 1)

LitDp == <<"d", "p", "/">>
LitGpProduct == <<"g", "p", "/", "p", "r", "o", "d", "u", "c", "t", "/">>
LitProductReviews == <<"p", "r", "o", "d", "u", "c", "t", "-",
                       "r", "e", "v", "i", "e", "w", "s", "/">>
LitAsinEq == <<"A", "S", "I", "N", "=">>

\* the fallback loop over segments[::-1]: the last segment of ten alphanumerics
RECURSIVE LastAlnumSegment(_)
LastAlnumSegment(segments) ==
    IF segments = <<>> THEN NoneV
    ELSE LET seg == segments[Len(segments)]
         IN  IF Len(seg) = AsinLen /\ IsAlnum(seg) THEN Some(seg)
             ELSE LastAlnumSegment(SubSeq(segments, 1, Len(segments) - 1))

\* _extract_asin(url): Some(identifier) or NoneV
_extract_asin(url) ==
    LET parsed == urlparse(url)
        path == parsed.path
        m1 == AsinSearch({"/"}, LitDp, path, 1)
        m2 == AsinSearch({"/"}, LitGpProduct, path, 1)
        m3 == AsinSearch({"/"}, LitProductReviews, path, 1)
        m4 == AsinSearch({"?", "&"}, LitAsinEq, parsed.query, 1)
        segments == SelectSeq(SplitOn(path, "/"), LAMBDA seg : seg # <<>>)
    IN  IF m1 # NoneV THEN m1
        ELSE IF m2 # NoneV THEN m2
        ELSE IF m3 # NoneV THEN m3
        ELSE IF m4 # NoneV THEN m4
        ELSE LastAlnumSegment(segments)

----------------------------------------------------------------------------
(* The review blocks of the model *)

\* A review block (a div[data-hook='review']) is the record of what its selectors
\* find: for each of rating_tag, title_tag, reaction_tag and body_tag NoneV (no
\* such node) or Some(text of the node), and `raises`, whether processing the
\* block raises an exception.

Id1 == <<"B", "0", "0", "0", "0", "0", "0", "0", "0", "1">>
TextFourStars == <<"4", ".", "0", " ", "o", "u", "t", " ", "o", "f", " ", "5",
                   " ", "s", "t", "a", "r", "s">>
TextBody == <<" ", "a", " ", "\n", "b">>
TextTitle == <<"t">>

BlockFull == [rating_tag |-> Some(TextFourStars), title_tag |-> Some(TextTitle),
              reaction_tag |-> NoneV, body_tag |-> Some(TextBody), raises |-> FALSE]
BlockNoise == [rating_tag |-> NoneV, title_tag |-> Some(TextTitle),
               reaction_tag |-> NoneV, body_tag |-> Some(<<" ">>), raises |-> FALSE]
BlockRaises == [rating_tag |-> Some(TextFourStars), title_tag |-> Some(TextTitle),
                reaction_tag |-> NoneV, body_tag |-> Some(TextBody), raises |-> TRUE]
PageBlocks == {BlockFull, BlockNoise, BlockRaises}

Id2 == <<"X", "0", "0", "0", "0", "0", "0", "0", "0", "A">>
\* A rating text: lead, a digit, an optional decimal, " out of 5", tail.
RatingText(r) ==
    r.lead \o <<r.units>> \o (IF r.tenths = NoneV THEN <<>> ELSE <<".", r.tenths[1]>>)
           \o <<" ">> \o LitOutOf \o <<" ", "5">> \o r.tail

\* The review blocks handed to the extractor.
BodyTags == {NoneV, Some(<<>>), Some(<<" ", "\n">>), Some(TextBody)}
ExtractorRatings == [lead : {<<>>}, units : Digits, tenths : {NoneV, Some("0"), Some("9")},
                     tail : {<<" ", "s", "t", "a", "r", "s">>}]
ExtractorBlocks ==
    [rating_tag : {NoneV, Some(<<"n", "o">>)} \cup {Some(RatingText(r)) : r \in ExtractorRatings},
     title_tag : {NoneV, Some(TextTitle)},
     reaction_tag : {NoneV, Some(<<"2", "1", " ", "p", "e", "o", "p", "l", "e">> \o LitFoundHelpful)},
     body_tag : BodyTags,
     raises : {FALSE}]

KnownBlocks == PageBlocks \cup ExtractorBlocks

----------------------------------------------------------------------------
(* reviews_parser.py: the review extractor *)

LitZeroVotes == <<"0", " ", "p", "e", "o", "p", "l", "e">> \o LitFoundHelpful

\* Python's truth value of an Optional[float]: None and 0.0 are false
Truthy(score) == score # NoneV /\ score[1] # 0

\* lines 155-194 and 212 of _parse_single_review: the fields read from the block
ExtractFields(block) ==
    LET rating_text == IF block.rating_tag # NoneV THEN Strip(block.rating_tag[1]) ELSE <<>>
        review_reaction == IF block.reaction_tag # NoneV
                           THEN clean_text(Some(Strip(block.reaction_tag[1])))
                           ELSE LitZeroVotes
    IN  [rating_score |-> parse_rating_score(rating_text),
         review_title |-> IF block.title_tag # NoneV
                          THEN clean_text(Some(Strip(block.title_tag[1]))) ELSE <<>>,
         review_reaction |-> review_reaction,
         review_description |-> IF block.body_tag # NoneV
                                THEN clean_text(Some(Strip(block.body_tag[1]))) ELSE <<>>,
         helpful_votes |-> parse_helpful_votes(review_reaction)]

\* lines 196-214 of _parse_single_review, on the fields read: Some(record) or NoneV
AssembleReview(f, asin_, position) ==
    IF f.review_description = <<>> /\ ~Truthy(f.rating_score) THEN NoneV
    ELSE Some([productAsin |-> asin_,
               ratingScore |-> f.rating_score,
               reviewTitle |-> f.review_title,
               reviewReaction |-> f.review_reaction,
               reviewDescription |-> f.review_description,
               position |-> position,
               helpfulVotes |-> f.helpful_votes])

\* The fields depend on the block alone: they are tabulated once, for the blocks
\* of the model (@@ makes the table an explicit function).
FieldsOf == <<>> @@ [b \in KnownBlocks |-> ExtractFields(b)]

\* _parse_single_review(block, asin, position), for a block that does not raise
_parse_single_review(block, asin_, position) ==
    AssembleReview(FieldsOf[block], asin_, position)

\* list(_parse_reviews_from_soup(soup, asin, start_position)), for the review
\* blocks of the soup in document order
RECURSIVE _parse_reviews_from_soup(_, _, _)
_parse_reviews_from_soup(review_blocks, asin_, position) ==
    IF review_blocks = <<>> THEN <<>>
    ELSE LET block == Head(review_blocks)
             review == IF block.raises THEN NoneV
                       ELSE _parse_single_review(block, asin_, position)
         IN  IF review # NoneV
             THEN <<review[1]>> \o _parse_reviews_from_soup(Tail(review_blocks), asin_, position + 1)
             ELSE _parse_reviews_from_soup(Tail(review_blocks), asin_, position)

----------------------------------------------------------------------------
(* Bounds and inputs of the scrape *)

MaxReviews == 3      \* max_reviews ranges over -1 .. MaxReviews
MaxRetry == 2        \* retry_count ranges over 0 .. MaxRetry
MaxBlocks == 2       \* a listing page holds 0 .. MaxBlocks review blocks
MaxSleep == 2        \* sleep_between_requests ranges over 1 .. MaxSleep

BoundedSeq(S, n) == UNION {[1..k -> S] : k \in 0..n}

\* A response body: the empty string, or markup holding review blocks.
Bodies == {[empty |-> TRUE, blocks |-> <<>>]}
          \cup {[empty |-> FALSE, blocks |-> bs] : bs \in BoundedSeq(PageBlocks, MaxBlocks)}

\* Why a GET fails: a status other than 200, or requests.RequestException.
Failures == {"non200", "RequestException"}

UrlDp == <<"/", "d", "p", "/">> \o Id1
UrlNoId == <<"/", "f", "o", "o">>
ScrapeUrls == {UrlDp, UrlNoId}

----------------------------------------------------------------------------
(* reviews_parser.py: scrape_product_reviews and _fetch_html_with_retries *)

\* Python's `not html` for Optional[str]
NotHtml(h) == IF h = NoneV THEN TRUE ELSE h[1].empty

\* _build_review_page_url(asin, page)
_build_review_page_url(asin_, page_) ==
    [path |-> <<"/">> \o LitProductReviews \o asin_, pageNumber |-> page_, sortBy |-> "recent"]

\* positions restart on every page
StartPositionPerPage(collected_) == 1

\* start_position=len(collected) + 1
StartPosition(collected_) == Len(collected_) + 1

\* a page number is skipped
NextPageSkips(page_) == page_ + 2

\* page += 1
NextPage(page_) == page_ + 1

\* one attempt too many
InRangeOffByOne(attempt_) == attempt_ <= retry_count + 1

\* `attempt` is still in range(1, self.retry_count + 1)
InRange(attempt_) == attempt_ <= retry_count

\* a constant wait instead of the linear backoff
BackoffConstant(attempt_) == sleep_between_requests

\* the argument of time.sleep after a failed attempt
BackoffDelay(attempt_) == sleep_between_requests * attempt_

\* the result is not truncated
ReturnAll(collected_, max_) == collected_

\* collected[:max_reviews]
ReturnValue(collected_, max_) == SliceTo(collected_, max_)

Init ==
    /\ pc = "start"
    /\ product_url \in ScrapeUrls
    /\ max_reviews \in -1..MaxReviews
    /\ retry_count \in 0..MaxRetry
    /\ sleep_between_requests \in 1..MaxSleep
    /\ asin = NoneV
    /\ collected = <<>>
    /\ page = 0
    /\ attempt = 0
    /\ html = NoneV
    /\ fetch_log = <<>>
    /\ requested = <<>>
    /\ page_yields = <<>>
    /\ slept = 0
    /\ result = NoneV
    /\ call = NoneV
    /\ ret = NoneV

\* lines 47-54: resolve the identifier, or raise ValueError
Start ==
    /\ pc = "start"
    /\ LET found == _extract_asin(product_url)
       IN  /\ asin' = found
           /\ IF found = NoneV
              THEN /\ pc' = "raised"
                   /\ UNCHANGED <<collected, page>>
              ELSE /\ pc' = "while"
                   /\ collected' = <<>>
                   /\ page' = 1
    /\ UNCHANGED <<product_url, max_reviews, retry_count, sleep_between_requests,
                   attempt, html, fetch_log, requested, page_yields, slept, result,
                   call, ret>>

\* lines 56-59 and 88: the loop test; when it holds, the fetcher is called
WhileTest ==
    /\ pc = "while"
    /\ IF Len(collected) < max_reviews
       THEN /\ requested' = Append(requested, _build_review_page_url(asin[1], page))
            /\ fetch_log' = <<>>
            /\ attempt' = 1
            /\ pc' = "fetch"
       ELSE /\ pc' = "return"
            /\ UNCHANGED <<requested, fetch_log, attempt>>
    /\ UNCHANGED <<product_url, max_reviews, retry_count, sleep_between_requests,
                   asin, collected, page, html, page_yields, slept, result, call, ret>>

\* lines 90-92: a GET answered with status 200 returns the body
GetOk ==
    /\ pc = "fetch"
    /\ InRange(attempt)
    /\ \E body \in Bodies :
          /\ fetch_log' = Append(fetch_log, [ev |-> "GET", url |-> requested[Len(requested)],
                                             attempt |-> attempt, status |-> "200",
                                             answer |-> Some(body)])
          /\ html' = Some(body)
    /\ pc' = "fetched"
    /\ UNCHANGED <<product_url, max_reviews, retry_count, sleep_between_requests,
                   asin, collected, page, attempt, requested, page_yields, slept,
                   result, call, ret>>

\* lines 90-95: a GET answered with another status, or failing in the transport
GetFail ==
    /\ pc = "fetch"
    /\ InRange(attempt)
    /\ \E why \in Failures :
          fetch_log' = Append(fetch_log, [ev |-> "GET", url |-> requested[Len(requested)],
                                          attempt |-> attempt, status |-> why,
                                          answer |-> NoneV])
    /\ pc' = "backoff"
    /\ UNCHANGED <<product_url, max_reviews, retry_count, sleep_between_requests,
                   asin, collected, page, attempt, html, requested, page_yields, slept,
                   result, call, ret>>

\* line 96: the wait after a failed attempt, then the next attempt
Backoff ==
    /\ pc = "backoff"
    /\ fetch_log' = Append(fetch_log, [ev |-> "sleep", secs |-> BackoffDelay(attempt)])
    /\ attempt' = attempt + 1
    /\ pc' = "fetch"
    /\ UNCHANGED <<product_url, max_reviews, retry_count, sleep_between_requests,
                   asin, collected, page, html, requested, page_yields, slept,
                   result, call, ret>>

\* lines 97-98: the attempts are exhausted, the fetcher returns None
FetchExhausted ==
    /\ pc = "fetch"
    /\ ~InRange(attempt)
    /\ html' = NoneV
    /\ pc' = "fetched"
    /\ UNCHANGED <<product_url, max_reviews, retry_count, sleep_between_requests,
                   asin, collected, page, attempt, fetch_log, requested, page_yields,
                   slept, result, call, ret>>

\* on an empty html the records collected so far are dropped
StopOnEmptyHtmlDropsAll ==
    /\ pc = "fetched"
    /\ NotHtml(html)
    /\ collected' = <<>>
    /\ pc' = "return"
    /\ UNCHANGED <<product_url, max_reviews, retry_count, sleep_between_requests,
                   asin, page, attempt, html, fetch_log, requested, page_yields,
                   slept, result, call, ret>>

\* lines 60-62: no html, the loop ends
StopOnEmptyHtml ==
    /\ pc = "fetched"
    /\ NotHtml(html)
    /\ pc' = "return"
    /\ UNCHANGED <<product_url, max_reviews, retry_count, sleep_between_requests,
                   asin, collected, page, attempt, html, fetch_log, requested,
                   page_yields, slept, result, call, ret>>

\* lines 64-78: parse the page, extend `collected`, end the loop or go to the next page
ParsePage ==
    /\ pc = "fetched"
    /\ ~NotHtml(html)
    /\ LET reviews == _parse_reviews_from_soup(html[1].blocks, asin[1], StartPosition(collected))
           extended == collected \o reviews
       IN  /\ page_yields' = Append(page_yields, reviews)
           /\ IF reviews = <<>>
              THEN /\ pc' = "return"
                   /\ UNCHANGED <<collected, page, slept>>
              ELSE /\ collected' = extended
                   /\ IF Len(extended) >= max_reviews
                      THEN /\ pc' = "return"
                           /\ UNCHANGED <<page, slept>>
                      ELSE /\ page' = NextPage(page)
                           /\ slept' = slept + 1
                           /\ pc' = "while"
    /\ UNCHANGED <<product_url, max_reviews, retry_count, sleep_between_requests,
                   asin, attempt, html, fetch_log, requested, result, call, ret>>

\* line 80
Return ==
    /\ pc = "return"
    /\ result' = Some(ReturnValue(collected, max_reviews))
    /\ pc' = "done"
    /\ UNCHANGED <<product_url, max_reviews, retry_count, sleep_between_requests,
                   asin, collected, page, attempt, html, fetch_log, requested,
                   page_yields, slept, call, ret>>

Next ==
    \/ Start
    \/ WhileTest
    \/ GetOk
    \/ GetFail
    \/ Backoff
    \/ FetchExhausted
    \/ StopOnEmptyHtml
    \/ ParsePage
    \/ Return

Spec == Init /\ [][Next]_vars

\* Every step of the scrape is a step of one sequential thread: a GET answers or
\* fails, a sleep ends, and the thread goes on.
FairSpec == Spec /\ WF_vars(Next)

----------------------------------------------------------------------------
(* Direct calls of the pure functions, on inputs drawn from bounded sets *)

MaxSegs == 3         \* a product URL has 0 .. MaxSegs path segments
MaxParams == 2       \* and 0 .. MaxParams query parameters

SegDp == <<"d", "p">>
SegGp == <<"g", "p">>
SegProduct == <<"p", "r", "o", "d", "u", "c", "t">>
SegProductReviews == <<"p", "r", "o", "d", "u", "c", "t", "-", "r", "e", "v", "i", "e", "w", "s">>
SegLowerId == <<"b", "0", "0", "0", "0", "0", "0", "0", "0", "x">>
SegLongId == Id1 \o <<"X">>
SegFoo == <<"f", "o", "o">>
SegTokens == {SegDp, SegGp, SegProduct, SegProductReviews, Id1, SegLowerId, SegLongId, SegFoo}
ParamTokens == {[key |-> <<"A", "S", "I", "N">>, value |-> Id2],
                [key |-> <<"A", "S", "I", "N">>, value |-> SegFoo],
                [key |-> <<"r", "e", "f">>, value |-> <<"x">>]}

\* A product URL, from the end of its origin on: its path segments and its
\* query parameters.
UrlShapes == [segs : BoundedSeq(SegTokens, MaxSegs), params : BoundedSeq(ParamTokens, MaxParams)]

\* the text of a URL shape: /seg/seg?key=value&key=value
UrlText(u) ==
    LET path == IF u.segs = <<>> THEN <<>> ELSE <<"/">> \o Join(<<"/">>, u.segs)
        kv == [j \in 1..Len(u.params) |-> u.params[j].key \o <<"=">> \o u.params[j].value]
    IN  IF u.params = <<>> THEN path ELSE path \o <<"?">> \o Join(<<"&">>, kv)

\* A reaction statement: lead, then (when `phrase`) a count, a space, a noun and
\* " found this helpful", then tail.  A count is written in digits (value its
\* number) or as a word (value NoneV).
CountTokens == {[text |-> <<"0">>, value |-> Some(0)],
                [text |-> <<"1">>, value |-> Some(1)],
                [text |-> <<"7">>, value |-> Some(7)],
                [text |-> <<"2", "1">>, value |-> Some(21)],
                [text |-> <<"O", "n", "e">>, value |-> NoneV],
                [text |-> <<"o", "n", "e">>, value |-> NoneV],
                [text |-> <<"t", "w", "o">>, value |-> NoneV]}
NounTokens == {<<"p", "e", "o", "p", "l", "e">>, <<"P", "E", "O", "P", "L", "E">>,
               <<"p", "e", "r", "s", "o", "n">>, <<"P", "e", "r", "s", "o", "n">>,
               <<"u", "s", "e", "r", "s">>}
LeadTokens == {<<>>, <<"x", " ">>}
TailTokens == {<<>>, <<".">>}
VoteShapes == [lead : LeadTokens, phrase : BOOLEAN, count : CountTokens,
               noun : NounTokens, tail : TailTokens]

VoteText(v) ==
    IF v.phrase THEN v.lead \o v.count.text \o <<" ">> \o v.noun \o LitFoundHelpful \o v.tail
    ELSE v.lead \o v.tail

RatingLeads == {<<>>, <<"x", " ">>, <<"\n">>}
RatingTails == {<<>>, <<" ", "s", "t", "a", "r", "s">>}
RatingShapes == [lead : RatingLeads, units : Digits, tenths : {NoneV} \cup {Some(d) : d \in Digits},
                 tail : RatingTails]

InitPure ==
    /\ pc = "call"
    /\ call \in
        {[fn |-> "_extract_asin", shape |-> u, arg |-> UrlText(u)] : u \in UrlShapes}
        \cup {[fn |-> "parse_helpful_votes", shape |-> v, arg |-> VoteText(v)] : v \in VoteShapes}
        \cup {[fn |-> "parse_rating_score", shape |-> r, arg |-> RatingText(r)] : r \in RatingShapes}
        \cup {[fn |-> "parse_rating_score", shape |-> NoneV, arg |-> <<>>]}
        \cup {[fn |-> "_parse_single_review", shape |-> NoneV,
               arg |-> [block |-> b, asin |-> a, position |-> n]] :
                 b \in ExtractorBlocks, a \in {Id1, Id2}, n \in 1..2}
    /\ ret = NoneV
    /\ product_url = <<>>
    /\ max_reviews = 0
    /\ retry_count = 0
    /\ sleep_between_requests = 0
    /\ asin = NoneV
    /\ collected = <<>>
    /\ page = 0
    /\ attempt = 0
    /\ html = NoneV
    /\ fetch_log = <<>>
    /\ requested = <<>>
    /\ page_yields = <<>>
    /\ slept = 0
    /\ result = NoneV

ScrapeUnchanged ==
    UNCHANGED <<product_url, max_reviews, retry_count, sleep_between_requests, asin,
                collected, page, attempt, html, fetch_log, requested, page_yields,
                slept, result>>

Call_extract_asin ==
    /\ pc = "call"
    /\ call.fn = "_extract_asin"
    /\ ret' = Some(_extract_asin(call.arg))
    /\ pc' = "returned"
    /\ UNCHANGED call
    /\ ScrapeUnchanged

Call_parse_helpful_votes ==
    /\ pc = "call"
    /\ call.fn = "parse_helpful_votes"
    /\ ret' = Some(parse_helpful_votes(call.arg))
    /\ pc' = "returned"
    /\ UNCHANGED call
    /\ ScrapeUnchanged

Call_parse_rating_score ==
    /\ pc = "call"
    /\ call.fn = "parse_rating_score"
    /\ ret' = Some(parse_rating_score(call.arg))
    /\ pc' = "returned"
    /\ UNCHANGED call
    /\ ScrapeUnchanged

Call_parse_single_review ==
    /\ pc = "call"
    /\ call.fn = "_parse_single_review"
    /\ ret' = Some(_parse_single_review(call.arg.block, call.arg.asin, call.arg.position))
    /\ pc' = "returned"
    /\ UNCHANGED call
    /\ ScrapeUnchanged

NextPure ==
    \/ Call_extract_asin
    \/ Call_parse_helpful_votes
    \/ Call_parse_rating_score
    \/ Call_parse_single_review

PureSpec == InitPure /\ [][NextPure]_vars

----------------------------------------------------------------------------
(* Properties of the scrape *)

RECURSIVE Flatten(_)
Flatten(seqs) == IF seqs = <<>> THEN <<>> ELSE Head(seqs) \o Flatten(Tail(seqs))

Min(a, b) == IF a <= b THEN a ELSE b
Max(a, b) == IF a >= b THEN a ELSE b

\* number of records yielded by the first i parsed pages
RECURSIVE YieldedUpTo(_)
YieldedUpTo(i) == IF i = 0 THEN 0 ELSE Len(page_yields[i]) + YieldedUpTo(i - 1)

Finished == pc = "done"

\* C1: for max_reviews >= 1 the scrape returns the first min(max_reviews, T)
\* records of the concatenation, in page order, of the records extracted from
\* the pages it fetched (T their number): never more than max_reviews, and
\* exactly max_reviews when at least that many were extracted.
C1_ReturnsTruncatedConcatenation ==
    (Finished /\ max_reviews >= 1) =>
        LET all == Flatten(page_yields)
            n == Min(max_reviews, Len(all))
        IN  /\ result = Some(SubSeq(all, 1, n))
            /\ Len(result[1]) <= max_reviews
            /\ (Len(all) >= max_reviews => Len(result[1]) = max_reviews)

C1_Witness ==
    /\ Finished
    /\ max_reviews >= 2
    /\ Len(page_yields) >= 2
    /\ Len(Flatten(page_yields)) > max_reviews
    /\ Len(result[1]) = max_reviews

\* the blocks of a page that give a record: they do not raise and are not noise
YieldingBlocks(blocks) == {k \in 1..Len(blocks) : blocks[k] = BlockFull}

PageParsed == pc \in {"while", "return", "done"} /\ page_yields # <<>> /\ ~NotHtml(html)

\* C2: the i-th record returned has position i, across page boundaries and also
\* when blocks are discarded or raise: such a block consumes no position and the
\* blocks after it on the page are still extracted.
C2_PositionsAreIndices ==
    /\ \A i \in 1..Len(collected) : collected[i].position = i
    /\ Finished => \A i \in 1..Len(result[1]) : result[1][i].position = i
    /\ PageParsed =>
          Len(page_yields[Len(page_yields)]) = Cardinality(YieldingBlocks(html[1].blocks))

C2_Witness ==
    /\ Finished
    /\ Len(page_yields) = 2
    /\ Len(page_yields[1]) = 1
    /\ ~NotHtml(html)
    /\ html[1].blocks = <<BlockRaises, BlockFull>>
    /\ Len(result[1]) = 2
    /\ result[1][2].position = 2

\* the fetch of the last page requested failed on every attempt
FetchFailed == pc \in {"fetched", "return", "done"} /\ requested # <<>> /\ html = NoneV

\* C4: when the fetch of page k fails on all attempts the scrape raises nothing,
\* requests no further page and returns exactly the records of pages 1..k-1.
C4_FailedFetchKeepsCollected ==
    /\ [](FetchFailed =>
            /\ requested[Len(requested)].pageNumber = Len(requested)
            /\ Len(page_yields) = Len(requested) - 1
            /\ collected = Flatten(page_yields)
            /\ (Finished => result = Some(Flatten(page_yields))))
    /\ [][FetchFailed => (pc' \in {"return", "done"} /\ requested' = requested
                          /\ collected' = collected)]_vars

C4_Witness ==
    /\ Finished
    /\ html = NoneV
    /\ Len(requested) = 2
    /\ result[1] # <<>>
    /\ \E i, j \in 1..Len(fetch_log) :
          /\ fetch_log[i].ev = "GET" /\ fetch_log[i].status = "non200"
          /\ fetch_log[j].ev = "GET" /\ fetch_log[j].status = "RequestException"

RECURSIVE TotalSleep(_)
TotalSleep(log) ==
    IF log = <<>> THEN 0
    ELSE (IF Head(log).ev = "sleep" THEN Head(log).secs ELSE 0) + TotalSleep(Tail(log))

Gets(log) == {j \in 1..Len(log) : log[j].ev = "GET"}

\* C5: one fetcher call issues attempts 1, 2, ... one at a time; each failed
\* attempt k is followed by a wait of sleep_between_requests * k, the last one
\* included; a 200 answer is returned at once, with no further GET or wait;
\* after retry_count failures None is returned.  So at most retry_count GETs,
\* and a total wait of sleep_between_requests * n(n+1)/2 after n failures.
C5_FetcherEvents ==
    /\ \A j \in 1..Len(fetch_log) :
          IF j % 2 = 1
          THEN /\ fetch_log[j].ev = "GET"
               /\ fetch_log[j].attempt = (j + 1) \div 2
               /\ fetch_log[j].url = requested[Len(requested)]
               /\ (fetch_log[j].answer # NoneV => j = Len(fetch_log))
               /\ (fetch_log[j].answer = NoneV /\ j = Len(fetch_log) => pc = "backoff")
          ELSE /\ fetch_log[j].ev = "sleep"
               /\ fetch_log[j].secs = sleep_between_requests * (j \div 2)
               /\ fetch_log[j - 1].answer = NoneV
    /\ Cardinality(Gets(fetch_log)) <= retry_count
    /\ (pc = "fetched" /\ html = NoneV) =>
          /\ Len(fetch_log) = 2 * retry_count
          /\ 2 * TotalSleep(fetch_log) = sleep_between_requests * retry_count * (retry_count + 1)
    /\ (pc = "fetched" /\ html # NoneV) =>
          /\ fetch_log # <<>>
          /\ fetch_log[Len(fetch_log)].ev = "GET"
          /\ fetch_log[Len(fetch_log)].answer = html

C5_Witness ==
    /\ pc = "fetched"
    /\ html = NoneV
    /\ retry_count >= 2
    /\ sleep_between_requests >= 2
    /\ Len(fetch_log) = 2 * retry_count
    /\ TotalSleep(fetch_log) >= 6

\* C9: the pages are requested in the order 1, 2, 3, ..., each once; page p+1
\* only after page p was fetched, gave at least one record and left the total
\* below max_reviews; a page giving no record ends the scrape.
C9_PagesInOrder ==
    /\ \A i \in 1..Len(requested) :
          /\ requested[i].pageNumber = i
          /\ requested[i].path = <<"/">> \o LitProductReviews \o asin[1]
    /\ \A i \in 1..(Len(requested) - 1) :
          /\ Len(page_yields) >= i
          /\ page_yields[i] # <<>>
          /\ YieldedUpTo(i) < max_reviews
    /\ \A i \in 1..Len(page_yields) :
          (page_yields[i] = <<>> \/ YieldedUpTo(i) >= max_reviews) =>
              /\ i = Len(page_yields)
              /\ i = Len(requested)
              /\ pc \in {"return", "done"}

C9_Witness ==
    /\ Finished
    /\ max_reviews = 3
    /\ Len(requested) = 2
    /\ Len(page_yields) = 2
    /\ Len(page_yields[1]) = 2
    /\ Len(page_yields[2]) = 2
    /\ Len(result[1]) = 3

\* C10: the scrape terminates; every loop iteration that goes on adds a record,
\* so at most max(max_reviews, 0) pages are requested, with at most retry_count
\* GETs each, and none at all when max_reviews <= 0.
C10_Terminates ==
    /\ <>(pc \in {"done", "raised"})
    /\ [](/\ Len(requested) <= Max(max_reviews, 0)
          /\ Cardinality(Gets(fetch_log)) <= retry_count
          /\ (max_reviews <= 0 => requested = <<>> /\ fetch_log = <<>>))
    /\ [][(pc = "fetched" /\ pc' = "while") => Len(collected') > Len(collected)]_vars

C10_Witness ==
    /\ Finished
    /\ max_reviews = 3
    /\ Len(requested) = 3
    /\ retry_count = 2
    /\ Cardinality(Gets(fetch_log)) = 2

----------------------------------------------------------------------------
(* Properties of the pure functions *)

Returned(fn) == pc = "returned" /\ call.fn = fn

\* the text of a node, stripped and cleaned, is empty
BlankTag(tag) == IF tag = NoneV THEN TRUE ELSE \A k \in 1..Len(tag[1]) : tag[1][k] \in Whitespace

\* C3: the extractor returns absent exactly when the cleaned body is empty and
\* parse_rating returned absent; otherwise a record with the given identifier
\* and position.
C3_AbsentIffEmptyAndUnrated ==
    Returned("_parse_single_review") =>
        LET block == call.arg.block
            rating == IF block.rating_tag = NoneV THEN NoneV
                      ELSE parse_rating_score(Strip(block.rating_tag[1]))
        IN  /\ (ret[1] = NoneV) <=> (BlankTag(block.body_tag) /\ rating = NoneV)
            /\ IF ret[1] = NoneV THEN TRUE
               ELSE /\ ret[1][1].productAsin = call.arg.asin
                    /\ ret[1][1].position = call.arg.position

\* the first k with P(k), in 1..n, or 0
FirstIndex(n, P(_)) == IF \E k \in 1..n : P(k) THEN CHOOSE k \in 1..n : P(k) /\ \A h \in 1..(k - 1) : ~P(h) ELSE 0
LastIndex(n, P(_)) == IF \E k \in 1..n : P(k) THEN CHOOSE k \in 1..n : P(k) /\ \A h \in (k + 1)..n : ~P(h) ELSE 0

\* s starts with an identifier: ten characters of [A-Z0-9]
StartsWithId(s) == Len(s) >= AsinLen /\ \A k \in 1..AsinLen : s[k] \in AsinChars

\* the identifier rules 1..5 on a URL shape, in their order of priority
PriorityResolve(u) ==
    LET n == Len(u.segs)
        r1 == FirstIndex(n - 1, LAMBDA k : u.segs[k] = SegDp /\ StartsWithId(u.segs[k + 1]))
        r2 == FirstIndex(n - 2, LAMBDA k : u.segs[k] = SegGp /\ u.segs[k + 1] = SegProduct
                                           /\ StartsWithId(u.segs[k + 2]))
        r3 == FirstIndex(n - 1, LAMBDA k : u.segs[k] = SegProductReviews
                                           /\ StartsWithId(u.segs[k + 1]))
        r4 == FirstIndex(Len(u.params), LAMBDA k : u.params[k].key = <<"A", "S", "I", "N">>
                                                   /\ StartsWithId(u.params[k].value))
        r5 == LastIndex(n, LAMBDA k : Len(u.segs[k]) = AsinLen
                                      /\ \A c \in 1..AsinLen : u.segs[k][c] \in AlnumChars)
    IN  IF r1 # 0 THEN Some(SubSeq(u.segs[r1 + 1], 1, AsinLen))
        ELSE IF r2 # 0 THEN Some(SubSeq(u.segs[r2 + 2], 1, AsinLen))
        ELSE IF r3 # 0 THEN Some(SubSeq(u.segs[r3 + 1], 1, AsinLen))
        ELSE IF r4 # 0 THEN Some(SubSeq(u.params[r4].value, 1, AsinLen))
        ELSE IF r5 # 0 THEN Some(u.segs[r5])
        ELSE NoneV

\* C6: _extract_asin returns the identifier found by the first of the rules
\* /dp/, /gp/product/, /product-reviews/, query parameter ASIN, last segment of
\* ten alphanumerics that matches, and not-found exactly when none matches.
C6_ResolvesByPriority ==
    Returned("_extract_asin") => ret[1] = PriorityResolve(call.shape)

LowerPeople == <<"p", "e", "o", "p", "l", "e">>
LowerPerson == <<"p", "e", "r", "s", "o", "n">>

\* the count a reaction statement states
StatedVotes(v) ==
    IF ~v.phrase THEN 0
    ELSE IF v.count.value # NoneV /\ Lower(v.noun) \in {LowerPeople, LowerPerson}
         THEN v.count.value[1]
    ELSE IF Lower(v.count.text) = <<"o", "n", "e">> /\ Lower(v.noun) = LowerPerson THEN 1
    ELSE 0

\* C7: parse_helpful_votes returns N for "<N> people found this helpful" and
\* for "<N> person found this helpful", in any letter case; else 1 for "one
\* person found this helpful"; else 0.
C7_VotesAsStated ==
    Returned("parse_helpful_votes") => ret[1] = StatedVotes(call.shape)

InRatingRange(score) == IF score = NoneV THEN TRUE ELSE score[1] >= 0 /\ score[1] <= 50

\* C8: a rating score, as parsed and as carried by a record, is absent or lies
\* between 0.0 and 5.0.
C8_RatingInRange ==
    /\ Returned("parse_rating_score") => InRatingRange(ret[1])
    /\ Returned("_parse_single_review") =>
          (IF ret[1] = NoneV THEN TRUE ELSE InRatingRange(ret[1][1].ratingScore))

====
